---- MODULE Spec2Model ----
(***************************************************************************)
(* Geometric classification of visionrt-cube-dicom.py: is_in_cube,         *)
(* is_in_sphere and is_in_sphere_np, over the module-level geometry        *)
(* parameters.                                                             *)
(*                                                                         *)
(* Lengths are exact integers in units of a quarter millimetre, so that    *)
(* sphere_diameter / 2 = 3.75 mm is the integer 15.  Every coordinate,     *)
(* square and sum of squares that occurs is exactly representable in the   *)
(* program's doubles, and sqrt is monotone and exact on perfect squares,   *)
(* so "norm(v) <= b" is decided as "b >= 0 and |v|^2 <= b^2".              *)
(***************************************************************************)
EXTENDS Integers, Sequences, FiniteSets, TLC

VARIABLES
    cube_half_width,     \* module global, line 5
    cube_inside_bevel,   \* module global, line 6
    bevel_radius,        \* module global, line 7
    sphere_centers,      \* module global, lines 11-13 (sequence of centres)
    pc,                  \* "start" before the call, "done" after it
    op,                  \* the function that was called
    loc,                 \* argument of is_in_cube / is_in_sphere
    rounded_edges,       \* argument of is_in_cube
    x, y, z,             \* arguments of is_in_sphere_np
    ret,                 \* "True", "False", "None", "AssertionError" or "-"
    is_in_sphere_array   \* value returned by is_in_sphere_np

vars == <<cube_half_width, cube_inside_bevel, bevel_radius, sphere_centers,
          pc, op, loc, rounded_edges, x, y, z, ret, is_in_sphere_array>>

----------------------------------------------------------------------------
\* Units and bounds

\* quarter-millimetre units per millimetre
mm == 4

\* cube coordinates run from (cube_inside_bevel - Margin) to
\* (cube_half_width + Margin) millimetres, both signs, and 0
Margin == 1

\* longest argument list handed to is_in_cube / is_in_sphere
MaxLen == 4

\* longest coordinate sequence handed to is_in_sphere_np
MaxGrid == 2

----------------------------------------------------------------------------
\* Program constants

\* sphere_diameter = 7.5 mm
sphere_diameter == 30

\* sphere_centers as listed in the source
SphereCentersInit ==
    << <<-10 * mm, -25 * mm, -30 * mm>>,
       << 10 * mm, -15 * mm, -15 * mm>>,
       <<  0 * mm,   0 * mm,   0 * mm>>,
       <<-20 * mm,  20 * mm,  10 * mm>>,
       << 20 * mm,  30 * mm,  20 * mm>> >>

----------------------------------------------------------------------------
\* numpy helpers

Abs(v) == IF v < 0 THEN -v ELSE v

\* np.abs(loc): elementwise absolute value
NpAbs(a) == [i \in 1..Len(a) |-> Abs(a[i])]

RECURSIVE SumSeq(_)
SumSeq(s) == IF s = << >> THEN 0 ELSE Head(s) + SumSeq(Tail(s))

\* sum(mask): number of True entries of a boolean array
CountTrue(mask) == Cardinality({i \in 1..Len(mask) : mask[i]})

\* a[mask]: boolean-mask indexing along the first axis, order preserved
RECURSIVE MaskSelect(_, _)
MaskSelect(a, mask) ==
    IF a = << >> THEN << >>
    ELSE IF Head(mask) THEN <<Head(a)>> \o MaskSelect(Tail(a), Tail(mask))
         ELSE MaskSelect(Tail(a), Tail(mask))

\* c * np.ones((n, 1)): a column, n rows of one entry each
Column(c, n) == [i \in 1..n |-> <<c>>]

\* a - col with a of shape (n,) and col of shape (m, 1): numpy broadcasts to
\* the (m, n) matrix whose entry [r][c] is a[c] - col[r][0]
BroadcastSub(a, col) ==
    [r \in 1..Len(col) |-> [c \in 1..Len(a) |-> a[c] - col[r][1]]]

\* a - b for two arrays of the same shape (n,)
VecSub(a, b) == [i \in 1..Len(a) |-> a[i] - b[i]]

\* square of np.linalg.norm of a 1-D array
NormSq(v) == SumSeq([i \in 1..Len(v) |-> v[i] * v[i]])

\* square of np.linalg.norm of a 2-D array (ord=None: Frobenius norm, the
\* array is ravelled and every entry counted)
FrobeniusSq(m) == SumSeq([r \in 1..Len(m) |-> NormSq(m[r])])

\* sqrt(sq) <= num / den, for den > 0
DistLeq(sq, num, den) == num >= 0 /\ sq * den * den <= num * num

----------------------------------------------------------------------------
\* is_in_sphere (lines 42-64)

\* mutant: the length check only rejects lists that are too long
ArityOk_AtMost(p) == Len(p) <= 3

\* assert len(loc) == 3
ArityOk(p) == Len(p) = 3

\* mutant: strict comparison, dist < sphere_diameter / 2
InThisSphere_Strict(p, origin) ==
    LET vec  == VecSub(p, origin)
        dist == NormSq(vec)
    IN  4 * dist < sphere_diameter * sphere_diameter

\* one pass of the loop body: vec = loc - origin; dist = norm(vec);
\* dist <= sphere_diameter / 2
InThisSphere(p, origin) ==
    LET vec  == VecSub(p, origin)
        dist == NormSq(vec)
    IN  DistLeq(dist, sphere_diameter, 2)

\* for origin in sphere_centers: ... return True; after the loop return False
RECURSIVE SphereLoop(_, _)
SphereLoop(p, centers) ==
    IF centers = << >> THEN "False"
    ELSE IF InThisSphere(p, Head(centers)) THEN "True"
    ELSE SphereLoop(p, Tail(centers))

is_in_sphere(p) ==
    IF ~ArityOk(p) THEN "AssertionError"
    ELSE SphereLoop(p, sphere_centers)

----------------------------------------------------------------------------
\* is_in_cube (lines 67-135)

\* mutant: loc >= cube_half_width
OutsideBox_Geq(a) == \E i \in 1..Len(a) : a[i] >= cube_half_width

\* mutant: all(...) in place of any(...)
OutsideBox_All(a) == \A i \in 1..Len(a) : a[i] > cube_half_width

\* Case 1: any(loc > cube_half_width)
OutsideBox(a) == \E i \in 1..Len(a) : a[i] > cube_half_width

\* mutant: loc < cube_inside_bevel
InsideBevel_Strict(a) == \A i \in 1..Len(a) : a[i] < cube_inside_bevel

\* Case 2: all(loc <= cube_inside_bevel)
InsideBevel(a) == \A i \in 1..Len(a) : a[i] <= cube_inside_bevel

\* mutant: loc >= cube_inside_bevel
OverBevel_Geq(a) == [i \in 1..Len(a) |-> a[i] >= cube_inside_bevel]

\* loc > cube_inside_bevel, the boolean array summed in cases 3, 4 and 5
OverBevel(a) == [i \in 1..Len(a) |-> a[i] > cube_inside_bevel]

\* Case 4, lines 113-119: the square of dist.  origin has shape (3, 1), so
\* origin[tf_array] has shape (2, 1) and the subtraction broadcasts to (2, 2)
EdgeDistSq(a) ==
    LET tf_array == OverBevel(a)
        origin   == Column(cube_inside_bevel, 3)
        vec      == BroadcastSub(MaskSelect(a, tf_array),
                                 MaskSelect(origin, tf_array))
    IN  FrobeniusSq(vec)

\* Case 5, lines 129-131: the square of dist.  loc has shape (3,) and origin
\* shape (3, 1), so the subtraction broadcasts to (3, 3)
CornerDistSq(a) ==
    LET origin == Column(cube_inside_bevel, 3)
        vec    == BroadcastSub(a, origin)
    IN  FrobeniusSq(vec)

is_in_cube(p, re) ==
    IF ~ArityOk(p) THEN "AssertionError"
    ELSE LET a == NpAbs(p) IN
         IF OutsideBox(a) THEN "False"
         ELSE IF ~re THEN "True"
         ELSE IF InsideBevel(a) THEN "True"
         ELSE IF CountTrue(OverBevel(a)) = 1 THEN "True"
         ELSE IF CountTrue(OverBevel(a)) = 2 THEN
                 IF DistLeq(EdgeDistSq(a), bevel_radius, 1)
                 THEN "True" ELSE "False"
         ELSE IF CountTrue(OverBevel(a)) = 3 THEN
                 IF DistLeq(CornerDistSq(a), bevel_radius, 1)
                 THEN "True" ELSE "False"
         ELSE "None"

----------------------------------------------------------------------------
\* is_in_sphere_np (lines 138-172)

\* index triples (0-based) of an array of the given shape
IndexSet(shape) ==
    {<<i, j, k>> : i \in 0..(shape[1] - 1),
                   j \in 0..(shape[2] - 1),
                   k \in 0..(shape[3] - 1)}

\* mutant: np.meshgrid's default indexing="xy", which swaps the first two axes
Meshgrid_XY(xs, ys, zs) ==
    LET shape == <<Len(ys), Len(xs), Len(zs)>> IN
    [ shape |-> shape,
      XX |-> [idx \in IndexSet(shape) |-> xs[idx[2] + 1]],
      YY |-> [idx \in IndexSet(shape) |-> ys[idx[1] + 1]],
      ZZ |-> [idx \in IndexSet(shape) |-> zs[idx[3] + 1]] ]

\* np.meshgrid(x, y, z, indexing="ij"): three arrays of shape
\* (len(x), len(y), len(z)); XX varies along axis 0, YY along 1, ZZ along 2
Meshgrid(xs, ys, zs) ==
    LET shape == <<Len(xs), Len(ys), Len(zs)>> IN
    [ shape |-> shape,
      XX |-> [idx \in IndexSet(shape) |-> xs[idx[1] + 1]],
      YY |-> [idx \in IndexSet(shape) |-> ys[idx[2] + 1]],
      ZZ |-> [idx \in IndexSet(shape) |-> zs[idx[3] + 1]] ]

\* lines 162-168 for one grid point: quad_sum <= (sphere_diameter / 2) ** 2
InThisSphereSq(px, py, pz, origin) ==
    LET DXX == px - origin[1]
        DYY == py - origin[2]
        DZZ == pz - origin[3]
        quad_sum == DXX * DXX + DYY * DYY + DZZ * DZZ
    IN  4 * quad_sum <= sphere_diameter * sphere_diameter

\* for origin in sphere_centers: ... np.logical_or(..., out=is_in_sphere_array)
RECURSIVE SphereNpLoop(_, _, _)
SphereNpLoop(grid, acc, centers) ==
    IF centers = << >> THEN acc
    ELSE SphereNpLoop(
           grid,
           [idx \in DOMAIN acc |->
               InThisSphereSq(grid.XX[idx], grid.YY[idx], grid.ZZ[idx],
                              Head(centers)) \/ acc[idx]],
           Tail(centers))

is_in_sphere_np(xs, ys, zs) ==
    LET grid  == Meshgrid(xs, ys, zs)
        zeros == [idx \in IndexSet(grid.shape) |-> FALSE]
    IN  [ shape |-> grid.shape,
          data  |-> SphereNpLoop(grid, zeros, sphere_centers) ]

----------------------------------------------------------------------------
\* Inputs

\* sequences over S of length exactly n
SeqsOfLen(S, n) == [1..n -> S]

\* coordinates handed to is_in_cube: 0 and the band around the bevel, in
\* whole millimetres, both signs
CubeBand ==
    {v * mm : v \in (67 - Margin)..(75 + Margin)}
CubeCoords == {0} \cup CubeBand \cup {-v : v \in CubeBand}

\* argument lists of the wrong length
BadArity ==
    UNION {SeqsOfLen({0, 70 * mm}, n) : n \in (0..MaxLen) \ {3}}

CubeArgs == SeqsOfLen(CubeCoords, 3) \cup BadArity

\* points handed to is_in_sphere: a centre plus an offset.  The radius is 15
\* quarter-millimetres; the offsets combine to points inside, outside and
\* exactly on the surface, such as (15,0,0), (-9,12,0) and (10,10,5)
Offsets == {-16, -15, -9, 0, 5, 10, 12, 15}
SphereArgs ==
    {<<c[1] + dx, c[2] + dy, c[3] + dz>> :
        c \in {SphereCentersInit[n] : n \in 1..Len(SphereCentersInit)},
        dx \in Offsets, dy \in Offsets, dz \in Offsets}
    \cup BadArity

\* coordinate sequences handed to is_in_sphere_np
SeqsUpTo(S, n) == UNION {SeqsOfLen(S, m) : m \in 0..n}
GridX == SeqsUpTo({0, 9, 10 * mm}, MaxGrid)
GridY == SeqsUpTo({12, -15 * mm}, MaxGrid)
GridZ == SeqsUpTo({0, -15 * mm + 15}, MaxGrid)

----------------------------------------------------------------------------
\* State machine

NoArray == [shape |-> <<0, 0, 0>>, data |-> << >>]

Idle ==
    /\ pc = "start"
    /\ op = "-"
    /\ loc = << >>
    /\ rounded_edges = TRUE
    /\ x = << >> /\ y = << >> /\ z = << >>
    /\ ret = "-"
    /\ is_in_sphere_array = NoArray

\* module load, lines 5-13
Init ==
    /\ cube_half_width = 75 * mm
    /\ cube_inside_bevel = 67 * mm
    /\ bevel_radius = cube_half_width - cube_inside_bevel
    /\ sphere_centers = SphereCentersInit
    /\ Idle

Globals == <<cube_half_width, cube_inside_bevel, bevel_radius, sphere_centers>>

CallIsInSphere ==
    /\ pc = "start"
    /\ \E p \in SphereArgs :
          /\ loc' = p
          /\ ret' = is_in_sphere(p)
    /\ op' = "is_in_sphere"
    /\ pc' = "done"
    /\ UNCHANGED <<Globals, rounded_edges, x, y, z, is_in_sphere_array>>

CallIsInCube ==
    /\ pc = "start"
    /\ \E p \in CubeArgs, re \in BOOLEAN :
          /\ loc' = p
          /\ rounded_edges' = re
          /\ ret' = is_in_cube(p, re)
    /\ op' = "is_in_cube"
    /\ pc' = "done"
    /\ UNCHANGED <<Globals, x, y, z, is_in_sphere_array>>

CallIsInSphereNp ==
    /\ pc = "start"
    /\ \E xs \in GridX, ys \in GridY, zs \in GridZ :
          /\ x' = xs /\ y' = ys /\ z' = zs
          /\ is_in_sphere_array' = is_in_sphere_np(xs, ys, zs)
    /\ op' = "is_in_sphere_np"
    /\ pc' = "done"
    /\ UNCHANGED <<Globals, loc, rounded_edges, ret>>

Next ==
    \/ CallIsInSphere
    \/ CallIsInCube
    \/ CallIsInSphereNp

Spec == Init /\ [][Next]_vars

----------------------------------------------------------------------------
\* The sphere centres listed in any order (the list is a module global that
\* is_in_sphere only iterates over)

CentreSet == {SphereCentersInit[n] : n \in 1..Len(SphereCentersInit)}

Orders ==
    {s \in [1..Len(SphereCentersInit) -> CentreSet] :
        \A i, j \in 1..Len(SphereCentersInit) : s[i] = s[j] => i = j}

InitOrder ==
    /\ cube_half_width = 75 * mm
    /\ cube_inside_bevel = 67 * mm
    /\ bevel_radius = cube_half_width - cube_inside_bevel
    /\ sphere_centers \in Orders
    /\ Idle

NextOrder == CallIsInSphere

SpecOrder == InitOrder /\ [][NextOrder]_vars

----------------------------------------------------------------------------
\* The cube parameters edited: lines 5-7 with other values, among them the
\* degenerate cube_inside_bevel > cube_half_width

CubeParams == {67 * mm, 75 * mm}

InitCfg ==
    /\ cube_half_width \in CubeParams
    /\ cube_inside_bevel \in CubeParams
    /\ bevel_radius = cube_half_width - cube_inside_bevel
    /\ sphere_centers = SphereCentersInit
    /\ Idle

NextCfg == CallIsInCube

SpecCfg == InitCfg /\ [][NextCfg]_vars

----------------------------------------------------------------------------
\* Properties

Returned(f) == pc = "done" /\ op = f

\* the absolute coordinates of the argument, and the axes over the bevel
\* threshold, written from the geometry rather than from the code
AbsLoc == [i \in 1..Len(loc) |-> IF loc[i] < 0 THEN 0 - loc[i] ELSE loc[i]]
OverAxes == {i \in 1..Len(loc) : AbsLoc[i] > cube_inside_bevel}
WithinBox == \A i \in 1..Len(loc) : AbsLoc[i] <= cube_half_width
Excess(i) == AbsLoc[i] - cube_inside_bevel

\* squared Euclidean distance, over the axes in A, from the bevel corner
BevelDistSq(A) ==
    LET sq[S \in SUBSET A] ==
          IF S = {} THEN 0
          ELSE LET i == CHOOSE i \in S : TRUE
               IN  Excess(i) * Excess(i) + sq[S \ {i}]
    IN  sq[A]

RoundedCubeCall == Returned("is_in_cube") /\ Len(loc) = 3 /\ rounded_edges

\* C1: in the edge region (all |coordinates| <= cube_half_width, exactly two
\* of them > cube_inside_bevel) is_in_cube(loc, True) is True iff the
\* distance of those two coordinates from (cube_inside_bevel,
\* cube_inside_bevel) is <= bevel_radius
C1_EdgeRegion ==
    (RoundedCubeCall /\ WithinBox /\ Cardinality(OverAxes) = 2)
        => /\ ret \in {"True", "False"}
           /\ ret = "True" <=>
                BevelDistSq(OverAxes) <= bevel_radius * bevel_radius

\* C2: in the corner region (all three |coordinates| <= cube_half_width and
\* > cube_inside_bevel) is_in_cube(loc, True) is True iff the distance from
\* (cube_inside_bevel, cube_inside_bevel, cube_inside_bevel) is
\* <= bevel_radius
C2_CornerRegion ==
    (RoundedCubeCall /\ WithinBox /\ Cardinality(OverAxes) = 3)
        => /\ ret \in {"True", "False"}
           /\ ret = "True" <=>
                BevelDistSq(OverAxes) <= bevel_radius * bevel_radius

\* C3: is_in_sphere_np(x, y, z) has shape (len(x), len(y), len(z)) and its
\* element (i, j, k) equals is_in_sphere((x[i], y[j], z[k]))
C3_SphereEquivalence ==
    Returned("is_in_sphere_np") =>
        /\ is_in_sphere_array.shape = <<Len(x), Len(y), Len(z)>>
        /\ DOMAIN is_in_sphere_array.data = IndexSet(<<Len(x), Len(y), Len(z)>>)
        /\ \A idx \in IndexSet(<<Len(x), Len(y), Len(z)>>) :
              LET scalar ==
                    is_in_sphere(<<x[idx[1] + 1], y[idx[2] + 1], z[idx[3] + 1]>>)
              IN  /\ scalar \in {"True", "False"}
                  /\ is_in_sphere_array.data[idx] <=> (scalar = "True")

\* a grid with axes of different lengths, holding points inside and outside
C3_Witness ==
    /\ Returned("is_in_sphere_np")
    /\ Len(x) = 2 /\ Len(y) = 1 /\ Len(z) = 2
    /\ \E i, j \in DOMAIN is_in_sphere_array.data :
          is_in_sphere_array.data[i] /\ ~is_in_sphere_array.data[j]

\* C4: is_in_sphere(loc) is True iff some configured centre lies within
\* sphere_diameter / 2 of loc (a point exactly at that distance is inside),
\* whatever the order of the centres
C4_SphereMembership ==
    (Returned("is_in_sphere") /\ Len(loc) = 3) =>
        /\ ret \in {"True", "False"}
        /\ ret = "True" <=>
             \E c \in CentreSet :
                4 * ( (loc[1] - c[1]) * (loc[1] - c[1])
                    + (loc[2] - c[2]) * (loc[2] - c[2])
                    + (loc[3] - c[3]) * (loc[3] - c[3]) )
                  <= sphere_diameter * sphere_diameter

\* a point exactly sphere_diameter / 2 from the last centre of a reordered
\* list, off all three axes, classified inside
C4_Witness ==
    /\ Returned("is_in_sphere")
    /\ sphere_centers # SphereCentersInit
    /\ LET c == sphere_centers[Len(sphere_centers)] IN
          /\ loc[1] - c[1] = 10 /\ loc[2] - c[2] = 5 /\ loc[3] - c[3] = 10
    /\ ret = "True"

MaxAbs == CHOOSE m \in {AbsLoc[i] : i \in 1..Len(loc)} :
              \A i \in 1..Len(loc) : AbsLoc[i] <= m

\* C5: is_in_cube(p, False) equals max(|p.x|, |p.y|, |p.z|) <= cube_half_width;
\* a coordinate equal to cube_half_width is inside
C5_SharpCube ==
    (Returned("is_in_cube") /\ Len(loc) = 3 /\ ~rounded_edges) =>
        ret = (IF MaxAbs <= cube_half_width THEN "True" ELSE "False")

\* a sharp-cube call on a corner of the bounding box
C5_Witness ==
    /\ Returned("is_in_cube") /\ Len(loc) = 3 /\ ~rounded_edges
    /\ \A i \in 1..3 : AbsLoc[i] = cube_half_width
    /\ ret = "True"

\* C6: a point inside the rounded cube is inside the sharp cube, and a point
\* with an absolute coordinate > cube_half_width is outside in both modes
C6_RoundingMonotone ==
    (Returned("is_in_cube") /\ Len(loc) = 3) =>
        /\ (rounded_edges /\ ret = "True") => is_in_cube(loc, FALSE) = "True"
        /\ ~WithinBox => (/\ ret = "False"
                          /\ is_in_cube(loc, ~rounded_edges) = "False")

\* a rounded-cube call that answers True inside an edge region
C6_Witness ==
    /\ RoundedCubeCall /\ WithinBox
    /\ Cardinality(OverAxes) = 2
    /\ ret = "True"

\* C7: a point within the box with at most one coordinate strictly over
\* cube_inside_bevel is inside in both modes; a coordinate equal to
\* cube_inside_bevel is not over the threshold
C7_FlatRegions ==
    (Returned("is_in_cube") /\ Len(loc) = 3 /\ WithinBox
        /\ Cardinality(OverAxes) <= 1)
        => ret = "True"

\* a rounded-cube call on a face point with one coordinate on the outer
\* face and the other two exactly at cube_inside_bevel
C7_Witness ==
    /\ RoundedCubeCall
    /\ AbsLoc[1] = cube_half_width
    /\ AbsLoc[2] = cube_inside_bevel /\ AbsLoc[3] = cube_inside_bevel
    /\ ret = "True"

\* C8: with cube_inside_bevel > cube_half_width no classification result is
\* produced (the configuration is rejected)
C8_DegenerateRejected ==
    (cube_inside_bevel > cube_half_width) => ret \notin {"True", "False"}

\* C9: is_in_cube and is_in_sphere on a point that has not exactly three
\* coordinates raise an error and return no classification
C9_ArityChecked ==
    ((Returned("is_in_cube") \/ Returned("is_in_sphere")) /\ Len(loc) # 3)
        => ret = "AssertionError"

\* is_in_cube on a two-coordinate point
C9_Witness ==
    /\ Returned("is_in_cube")
    /\ Len(loc) = 2
    /\ ret = "AssertionError"

\* C10: is_in_cube on a three-coordinate point returns True or False, never
\* falling off the end: the outside-box test and the counts 0, 1, 2, 3 of
\* coordinates over cube_inside_bevel cover every input
C10_CubeTotal ==
    (Returned("is_in_cube") /\ Len(loc) = 3) =>
        ret \in {"True", "False"}

\* a rounded-cube call decided by the last branch, the corner case
C10_Witness ==
    /\ RoundedCubeCall /\ WithinBox
    /\ Cardinality(OverAxes) = 3
    /\ ret = "False"

====
